---- MODULE Spec2Model ----
(***************************************************************************)
(* minter-service: the status reconciler (MinterService.get_minting_status *)
(* and its helper _get_minting_status_is_confirmed) and the submitter      *)
(* (MinterService.mint_tokens) of src/lib/mixbytes/minter.py, run by the   *)
(* one process-wide MinterService of src/bin/wsgi_app.py, against a ledger *)
(* (web3) and a cache (redis).                                             *)
(*                                                                         *)
(* Every statement of get_minting_status that talks to the ledger, to the  *)
(* cache or to the shared web3 object is one step of a poller, so that     *)
(* requests served by different threads of the one MinterService           *)
(* interleave statement by statement.                                      *)
(*                                                                         *)
(* SpecOps is the administrative side: the processes of src/bin/ctl.py and *)
(* src/bin/install_simple_token.py and the service process contend for the *)
(* lock of state.yaml (src/lib/mixbytes/filelock.py), and the service      *)
(* answers GET /mintTokens.                                                *)
(***************************************************************************)
EXTENDS Integers, Sequences, FiniteSets

\* ---------------------------------------------------------------- bounds
MaxHeight == 3      \* the chain grows up to this block number
MaxTx == 2          \* mint transactions submitted in one behaviour
MaxN == 2           \* largest require_confirmations tried
RaceTx == 1         \* mint transactions submitted while requests overlap

MintIds == {"m1", "m2"}
Pollers == {"p1", "p2"}
TxIds == 1..MaxTx
Investors == {"investor1", "investor2"}

\* eth.defaultBlock of a fresh web3 object is 'latest'; a pinned block is its
\* number (always >= 1 here, see Step1Entry)
Latest == 0

\* history only: no confirmations are tracked for a mint id whose marker expired
Lost == 0 - (MaxHeight + 1)

VARIABLES
    confSet,        \* 'require_confirmations' in conf
    confN,          \* int(conf['require_confirmations'])
    deployBlock,    \* state['minter_contract_block_num']
    height,         \* w3.eth.blockNumber
    processedAt,    \* contract: block in which m_processed_mint_id[m] became true, 0 = never
    txMint,         \* transaction -> mint id it carries
    txState,        \* transaction -> what the ledger knows of it
    nTx,            \* transactions submitted so far
    balance,        \* token: investor -> balanceOf
    hints,          \* redis list _redis_mint_tx_key(m): tx hashes, newest first
    marker,         \* redis key 'bh'+_redis_mint_tx_key(m): block height, 0 = absent
    pushQ,          \* mint_tokens calls between transact (l.57) and lpush (l.62)
    defaultBlock,   \* w3.eth.defaultBlock of the shared web3 object
    poll,           \* thread -> the get_minting_status call it runs (see Idle)
    everMinted,     \* history: mint ids for which some call has returned 'minted'
    lastConf,       \* history: mint id -> confirmations of the latest 'minting'
                    \* reply, Lost once the marker of the id has expired
    mintDone,       \* history: transaction -> how the mint_tokens call that sent
                    \* it ended ("no": it has not)
    threads,        \* workload: the threads that serve requests
    txCap,          \* workload: mint_tokens calls made
    stateFile,      \* state.yaml: which of 'account', 'minter_contract' it holds
    lockEx,         \* state.yaml.lock: the process holding flock LOCK_EX, or "none"
    lockSh,         \* state.yaml.lock: the processes holding flock LOCK_SH
    proc,           \* ctl.py process -> its command and where it is (see NoProc)
    accounts,       \* ledger node: accounts made by personal.newAccount
    svc,            \* the wsgi process: up, and the _State it loaded at start
    http,           \* the latest /mintTokens request and its response so far
    keyPid,         \* keys: the service process in turn (restarts counted)
    keyContract,    \* keys: state['minter_contract'] that process loaded
    keyMint,        \* keys: what the latest mint_tokens call derived
    keyStatus,      \* keys: what the latest get_minting_status call derived
    blockGasLimit,  \* gas: eth.getBlock('latest').gasLimit
    confGas,        \* gas: conf['gas_limit'], if the key is present
    mintGas         \* gas: the 'gas' of the latest mint_tokens transaction

ledgerVars == <<height, processedAt, txMint, txState, nTx, balance>>
keyVars == <<keyPid, keyContract, keyMint, keyStatus>>
gasVars == <<blockGasLimit, confGas, mintGas>>
adminVars == <<stateFile, lockEx, lockSh, proc, svc, accounts, keyVars, gasVars>>
confVars == <<confSet, confN, deployBlock, threads, txCap, adminVars>>
mintVars == <<pushQ, http>>
cacheVars == <<hints, marker>>
histVars == <<everMinted, lastConf, mintDone>>
vars == <<confVars, ledgerVars, cacheVars, mintVars, defaultBlock, poll, histVars>>

\* ------------------------------------------------------------- the ledger
TxStates == {"none", "pending", "dropped", "ok", "failed"}

\* a ledger that answers getTransaction for mined transactions only
TxKnownIfMined(t) == txState[t] \in {"ok", "failed"}

\* eth.getTransaction(h) is not None
TxKnown(t) == txState[t] \notin {"none", "dropped"}
\* tx.blockNumber is not None
TxMined(t) == txState[t] \in {"ok", "failed"}
\* eth.getTransactionReceipt(h) is not None, where the node fails to serve the
\* receipts of the transactions in no_receipt (it is resolving a reorg)
TxHasReceipt(t, no_receipt) == TxMined(t) /\ t \notin no_receipt
\* get_receipt_status(receipt)
get_receipt_status(t) == IF txState[t] = "failed" THEN 0 ELSE 1

\* the block a contract read is evaluated at under eth.defaultBlock = d
ReadBlock(d) == IF d = Latest THEN height ELSE d

\* the contract's m_processed_mint_id[m] as of block b
ProcessedAsOf(m, b) == processedAt[m] # 0 /\ processedAt[m] <= b

\* contract.call().m_processed_mint_id(m): evaluated at the shared eth.defaultBlock
m_processed_mint_id(m) == ProcessedAsOf(m, ReadBlock(defaultBlock))

\* ---------------------------------------------------------- configuration
\* conf.get('require_confirmations', 0)
ConfGet == IF confSet THEN confN ELSE 0

\* ------------------------------------------------------------- the reply
\* a reply that carries the two counters whatever the status
build_status_counters(status) ==
    [status |-> status, fields |-> TRUE, confirmations |-> 0, rest_confirmations |-> 0]

\* _build_status(status, **kwargs): fields tells whether the kwargs are there
build_status(status) ==
    [status |-> status, fields |-> FALSE, confirmations |-> 0, rest_confirmations |-> 0]

build_status_conf(status, c, r) ==
    [status |-> status, fields |-> TRUE, confirmations |-> c, rest_confirmations |-> r]

NoResult == build_status("none")

\* a thread that serves no request. pc is the statement the call is at; mid the
\* prepared mint id; cb, saved, isConf the locals confirmed_block, saved_default
\* and the helper's return value; cur, mark, fetched the locals
\* current_block_number, mint_id_block and tx_bin_ids; sync what eth.syncing
\* answered and nr the transactions whose receipt the node did not serve;
\* result the reply and via the step that made it; after (history) whether the
\* call began after some call had replied 'minted' for the same mint id;
\* reached (history) whether some cache call of this call reached redis; seen
\* (history) whether the contract showed the id processed when the call began.
Idle ==
    [pc |-> "idle", mid |-> "m1", cb |-> 0, saved |-> Latest, isConf |-> FALSE,
     cur |-> 0, mark |-> 0, fetched |-> <<>>, sync |-> FALSE, nr |-> {},
     result |-> NoResult, via |-> "none",
     after |-> FALSE, reached |-> FALSE, seen |-> FALSE]

\* ------------------------------------------------------ mint ids and keys
\* the mint ids callers pass: a str or bytes, of the texts tried
RawIds == [kind : {"str", "bytes"}, chars : {"a", "b"}]

\* the addresses a deployed minter contract may have
Contracts == {"0xC1", "0xC2"}

\* Web3.sha3 of a byte string: a function of the bytes, distinct for distinct
\* bytes
sha3(bytes) == <<"sha3", bytes>>

\* a normalizer that hashes a str as it is, unencoded
prepare_mint_id_raw(mint_id) == sha3(mint_id)

\* l.330-338 _prepare_mint_id: a str is encoded as UTF-8, then the bytes are hashed
prepare_mint_id(mint_id) ==
    LET bytes == IF mint_id.kind = "str" THEN [kind |-> "bytes", chars |-> mint_id.chars]
                                         ELSE mint_id
    IN  sha3(bytes)

\* l.341-354 _redis_mint_tx_key: the prefix, then the hash of the contract
\* address followed by the prepared mint id
redis_mint_tx_key(contract, mint_id, key_prefix) ==
    <<key_prefix, sha3(<<contract, mint_id>>)>>

\* no call yet
NoKeys == [pid |-> 0, arg |-> [kind |-> "str", chars |-> "a"], contract |-> "0xC1",
           mint_id |-> <<>>, hints |-> <<>>, marker |-> <<>>]

InitKeys ==
    /\ keyPid = 1
    /\ keyContract = "0xC1"
    /\ keyMint = NoKeys
    /\ keyStatus = NoKeys

\* ------------------------------------------------------------ gas limit
MaxGas == 12        \* block gas limits and configured caps range over 0..MaxGas

\* conf without 'gas_limit', and with gas_limit: v
NoGasLimit == [set |-> FALSE, v |-> 0]
GasLimitConf == {NoGasLimit} \cup [set : {TRUE}, v : 0..MaxGas]

\* no mint_tokens call has sent a transaction yet
NoMintGas == [sent |-> FALSE, block |-> 0, conf |-> NoGasLimit, gas |-> 0]

\* outside the gas workload: the latest block offers MaxGas, no cap configured
InitNoGas ==
    /\ blockGasLimit = MaxGas
    /\ confGas = NoGasLimit
    /\ mintGas = NoMintGas

\* ------------------------------------------------- state.yaml and its users
\* _State._state: the keys of state.yaml that matter ('account',
\* 'minter_contract'); a missing file loads as dict()
NoState == [account |-> FALSE, contract |-> FALSE]
Deployed == [account |-> TRUE, contract |-> TRUE]

\* the processes started from the command line: ctl.py with one of its three
\* commands, or install_simple_token.py
Procs == {"a1", "a2"}
Commands == {"init_account", "deploy_contract", "recover_ether", "install"}

\* a process that is not running. cmd is its command line; pc where it is; st
\* the _State._state it loaded; outer whether it holds the lock of a wsgi-mode
\* MinterService it constructed; err the message of the exception that ends it;
\* rcpt the block of the receipt of the transaction it waits for, 0 while the
\* ledger has none
NoProc ==
    [cmd |-> "init_account", pc |-> "idle", st |-> NoState, outer |-> FALSE, err |-> "",
     rcpt |-> 0]

\* the wsgi process of wsgi_app.py with a deployed contract
ServiceUp == [up |-> TRUE, st |-> Deployed]
ServiceDown == [up |-> FALSE, st |-> NoState]

\* no /mintTokens request yet. mint_id, address, tokens are the request
\* arguments as sent; status the response ("sent": the transaction is sent,
\* the response not yet made); error the message of the abort or exception;
\* asked whether the handler has called the ledger; tx the transaction sent
NoHttp ==
    [mint_id |-> "", address |-> "", tokens |-> "", status |-> "none",
     error |-> "", asked |-> FALSE, tx |-> 0]

InitState ==
    /\ confSet \in BOOLEAN
    /\ confN \in 0..MaxN
    /\ (~confSet => confN = 0)
    /\ deployBlock = 1
    /\ height = deployBlock
    /\ processedAt = [m \in MintIds |-> 0]
    /\ txMint = [t \in TxIds |-> "m1"]
    /\ txState = [t \in TxIds |-> "none"]
    /\ nTx = 0
    /\ balance = [a \in Investors |-> 0]
    /\ hints = [m \in MintIds |-> <<>>]
    /\ marker = [m \in MintIds |-> 0]
    /\ pushQ = {}
    /\ defaultBlock = Latest
    /\ poll = [p \in Pollers |-> Idle]
    /\ everMinted = {}
    /\ lastConf = [m \in MintIds |-> 0]
    /\ mintDone = [t \in TxIds |-> "no"]
    /\ stateFile = Deployed
    /\ accounts = 1
    /\ lockEx = "none"
    /\ lockSh = {"svc"}
    /\ proc = [c \in Procs |-> NoProc]
    /\ svc = ServiceUp
    /\ http = NoHttp
    /\ InitKeys

\* requests are served by several threads of the one MinterService and overlap
Init ==
    /\ InitState
    /\ InitNoGas
    /\ threads = Pollers
    /\ txCap = RaceTx

\* requests are served one at a time
InitSeq ==
    /\ InitState
    /\ InitNoGas
    /\ threads = {"p1"}
    /\ txCap = MaxTx

\* ------------------------------------------------------ ledger environment
\* a block without mint transactions is appended
Grow ==
    /\ height < MaxHeight
    /\ height' = height + 1
    /\ UNCHANGED <<processedAt, txMint, txState, nTx, balance>>
    /\ UNCHANGED <<confVars, cacheVars, mintVars, defaultBlock, poll, histVars>>

\* the arguments of the mint_tokens call that sent transaction t: the first
\* call mints 1 token for investor1, the later ones t tokens for investor2
Recipient(t) == IF t = 1 THEN "investor1" ELSE "investor2"
Amount(t) == t

\* ReenterableMinter.mint credits on every call, processed id or not
mint_again(m, to, amount) == [balance EXCEPT ![to] = @ + amount]

\* ReenterableMinter.mint(mint_id, to, amount), successful: the tokens are
\* credited unless the mint id is processed already
mint(m, to, amount) ==
    IF processedAt[m] # 0 THEN balance ELSE [balance EXCEPT ![to] = @ + amount]

\* a block is appended that holds the pending mint transaction t. The contract's
\* mint entry point is idempotent on the mint id: a successful call marks the id
\* processed only if it was not yet; a call may fail (receipt status 0) and then
\* changes nothing.
Mine(t, ok) ==
    /\ height < MaxHeight
    /\ txState[t] = "pending"
    /\ height' = height + 1
    /\ txState' = [txState EXCEPT ![t] = IF ok THEN "ok" ELSE "failed"]
    /\ processedAt' = IF ok /\ processedAt[txMint[t]] = 0
                      THEN [processedAt EXCEPT ![txMint[t]] = height + 1]
                      ELSE processedAt
    /\ balance' = IF ok THEN mint(txMint[t], Recipient(t), Amount(t)) ELSE balance
    /\ UNCHANGED <<txMint, nTx>>
    /\ UNCHANGED <<confVars, cacheVars, mintVars, defaultBlock, poll, histVars>>

\* the node forgets a pending transaction (getTransaction returns None)
Drop(t) ==
    /\ txState[t] = "pending"
    /\ txState' = [txState EXCEPT ![t] = "dropped"]
    /\ UNCHANGED <<height, processedAt, txMint, nTx, balance>>
    /\ UNCHANGED <<confVars, cacheVars, mintVars, defaultBlock, poll, histVars>>

\* ------------------------------------------------------- cache environment
\* the marker key, written with ex=3600, expires
ExpireMarker(m) ==
    /\ marker[m] # 0
    /\ marker' = [marker EXCEPT ![m] = 0]
    /\ lastConf' = [lastConf EXCEPT ![m] = Lost]
    /\ UNCHANGED <<hints, everMinted, mintDone>>
    /\ UNCHANGED <<confVars, ledgerVars, mintVars, defaultBlock, poll>>

\* Every cache call goes through _silent_redis_call: the call either reaches
\* redis (up) or raises ConnectionError, which is logged and becomes None.

\* ---------------------------------------------------------- mint_tokens
\* a state that always yields a contract address
get_minter_contract_address_any(st) == ""

\* l.451-454 _State.get_minter_contract_address: the message of the RuntimeError
\* it raises, "" if it returns the address
get_minter_contract_address(st) ==
    IF st.contract THEN "" ELSE "contract was not deployed"

\* l.57-59: transact(...).mint(mint_id, address, tokens) sends a transaction
transact_mint(m) ==
    /\ nTx' = nTx + 1
    /\ txMint' = [txMint EXCEPT ![nTx + 1] = m]
    /\ txState' = [txState EXCEPT ![nTx + 1] = "pending"]
    /\ pushQ' = pushQ \cup {nTx + 1}
    /\ UNCHANGED <<height, processedAt, balance>>

\* l.52-59: the mint transaction is sent; its hash is in hand
MintTransact(m) ==
    /\ nTx < txCap
    /\ nTx = 0 => m = "m1"      \* mint ids are interchangeable
    /\ svc.up /\ get_minter_contract_address(svc.st) = ""
    /\ transact_mint(m)
    /\ UNCHANGED <<confVars, cacheVars, http, defaultBlock, poll, histVars>>

\* a cache call that lets the ConnectionError reach its caller
raising_redis_call(up) == IF up THEN "done" ELSE "raised"

\* l.482-487: what a cache call does to its caller: it returns the answer of
\* redis ("done"), or logs the ConnectionError and returns None ("none")
silent_redis_call(up) == IF up THEN "done" ELSE "none"

\* a write that replaces the list by the one hash
redis_lpush_replace(m, t, up) == IF up THEN [hints EXCEPT ![m] = <<t>>] ELSE hints

\* redis lpush(key, tx_hash) under _silent_redis_call
redis_lpush(m, t, up) == IF up THEN [hints EXCEPT ![m] = <<t>> \o hints[m]] ELSE hints

\* l.62-67: the hash is remembered, best effort, and returned
MintLpush(t, up) ==
    /\ t \in pushQ
    /\ hints' = redis_lpush(txMint[t], t, up)
    /\ pushQ' = pushQ \ {t}
    /\ mintDone' = [mintDone EXCEPT ![t] = silent_redis_call(up)]
    /\ http' = IF http.tx = t /\ http.status = "sent"    \* wsgi_app.py l.52
               THEN [http EXCEPT !.status = "200"] ELSE http
    /\ UNCHANGED <<marker, everMinted, lastConf>>
    /\ UNCHANGED <<confVars, ledgerVars, defaultBlock, poll>>

\* ------------------------------------------------- get_minting_status
\* history: lastConf once reply r has been given for mint id m
LastConfAfter(m, r) ==
    IF r.status = "minting" /\ lastConf[m] # Lost
    THEN [lastConf EXCEPT ![m] = r.confirmations] ELSE lastConf

\* the call of thread p returns r to its caller from the statements of step,
\* where it made a cache call that reached redis iff up
Reply(p, r, step, up) ==
    /\ poll' = [poll EXCEPT ![p] = [Idle EXCEPT !.pc = "done", !.mid = poll[p].mid,
                                                !.cb = poll[p].cb,
                                                !.cur = poll[p].cur,
                                                !.mark = poll[p].mark,
                                                !.after = poll[p].after,
                                                !.seen = poll[p].seen,
                                                !.reached = poll[p].reached \/ up,
                                                !.result = r, !.via = step]]
    /\ everMinted' = IF r.status = "minted" THEN everMinted \cup {poll[p].mid}
                                             ELSE everMinted
    /\ lastConf' = LastConfAfter(poll[p].mid, r)
    /\ UNCHANGED mintDone

\* threads are interchangeable: the second one takes a request only while the
\* first one is busy
MayStart(p) ==
    /\ p \in threads
    /\ poll[p].pc = "idle"
    /\ p = "p2" => poll["p1"].pc # "idle"

\* l.92: Step 2 calls the contract only if require_confirmations > 0 ("and"
\* does not evaluate its second operand otherwise)
Step2Entry == IF ConfGet > 0 THEN "l92" ELSE "l103"

\* l.264-277: where Step 1 goes after reading eth.blockNumber
Step1Entry(confirmed_block) ==
    IF ~confSet THEN "l280"
    ELSE IF confirmed_block < 0 THEN Step2Entry
    ELSE IF deployBlock >= confirmed_block THEN Step2Entry
    ELSE "l274"

\* l.75-88, 257-277: a request for mint id m enters get_minting_status, which
\* enters the helper; confirmed_block is taken from eth.blockNumber
PollStart(p, m) ==
    /\ MayStart(p)
    /\ LET confirmed_block == IF confSet THEN height - confN ELSE 0 IN
       poll' = [poll EXCEPT ![p] = [Idle EXCEPT !.pc = Step1Entry(confirmed_block),
                                                !.mid = m,
                                                !.cb = confirmed_block,
                                                !.seen = processedAt[m] # 0,
                                                !.after = m \in everMinted]]
    /\ UNCHANGED <<confVars, ledgerVars, cacheVars, mintVars, defaultBlock, histVars>>

\* l.274: saved_default = w3_instance.eth.defaultBlock
S1Save(p) ==
    /\ poll[p].pc = "l274"
    /\ poll' = [poll EXCEPT ![p].pc = "l275", ![p].saved = defaultBlock]
    /\ UNCHANGED <<confVars, ledgerVars, cacheVars, mintVars, defaultBlock, histVars>>

\* l.275: w3_instance.eth.defaultBlock = '0x{:x}'.format(confirmed_block)
S1Pin(p) ==
    /\ poll[p].pc = "l275"
    /\ defaultBlock' = poll[p].cb
    /\ poll' = [poll EXCEPT ![p].pc = "l280"]
    /\ UNCHANGED <<confVars, ledgerVars, cacheVars, mintVars, histVars>>

\* l.280: contract.call().m_processed_mint_id(prepared_mint_id)
S1Call(p) ==
    /\ poll[p].pc = "l280"
    /\ poll' = [poll EXCEPT ![p].pc = "l282",
                            ![p].isConf = m_processed_mint_id(poll[p].mid)]
    /\ UNCHANGED <<confVars, ledgerVars, cacheVars, mintVars, defaultBlock, histVars>>

\* a delete that leaves the list in place
redis_delete_kept(m, up) == hints

\* l.280 raises: the ledger does not answer the contract call. Control passes
\* to the finally clause.
S1Raise(p) ==
    /\ poll[p].pc = "l280"
    /\ poll' = [poll EXCEPT ![p].pc = "l286"]
    /\ UNCHANGED <<confVars, ledgerVars, cacheVars, mintVars, defaultBlock, histVars>>

\* redis delete(key) under _silent_redis_call
redis_delete(m, up) == IF up THEN [hints EXCEPT ![m] = <<>>] ELSE hints

\* a finally clause that restores nothing
RestoreDefault_kept(p) == defaultBlock

\* l.286-288: what the finally clause leaves in eth.defaultBlock
RestoreDefault(p) == IF confSet THEN poll[p].saved ELSE defaultBlock

\* l.286-288 on the way out of l.280's exception: the finally clause runs and
\* the exception leaves get_minting_status; the request ends without a reply
S1Unwind(p) ==
    /\ poll[p].pc = "l286"
    /\ defaultBlock' = RestoreDefault(p)
    /\ poll' = [poll EXCEPT ![p] = [Idle EXCEPT !.pc = "raised", !.mid = poll[p].mid,
                                                !.cb = poll[p].cb,
                                                !.after = poll[p].after,
                                                !.seen = poll[p].seen]]
    /\ UNCHANGED <<confVars, ledgerVars, cacheVars, mintVars, histVars>>

\* l.281-290, 88-89: the hints are deleted if the id is processed; the finally
\* clause runs; the helper returns and 'minted' is replied if it returned True
S1Finish(p, up) ==
    /\ poll[p].pc = "l282"
    /\ defaultBlock' = RestoreDefault(p)
    /\ IF poll[p].isConf
       THEN /\ hints' = redis_delete(poll[p].mid, up)
            /\ Reply(p, build_status("minted"), "step1", up)
       ELSE /\ poll' = [poll EXCEPT ![p].pc = Step2Entry, ![p].saved = Latest,
                                    ![p].isConf = FALSE]
            /\ UNCHANGED <<hints, histVars>>
    /\ UNCHANGED marker
    /\ UNCHANGED <<confVars, ledgerVars, mintVars>>

\* l.92: require_confirmations > 0 and the contract shows the id processed
S2Call(p) ==
    /\ poll[p].pc = "l92"
    /\ poll' = [poll EXCEPT ![p].pc =
                    IF m_processed_mint_id(poll[p].mid) THEN "l93" ELSE "l103"]
    /\ UNCHANGED <<confVars, ledgerVars, cacheVars, mintVars, defaultBlock, histVars>>

\* l.93: current_block_number = self._w3.eth.blockNumber
S2Height(p) ==
    /\ poll[p].pc = "l93"
    /\ poll' = [poll EXCEPT ![p].pc = "l94", ![p].cur = height]
    /\ UNCHANGED <<confVars, ledgerVars, cacheVars, mintVars, defaultBlock, histVars>>

\* a read that answers from the stored marker although redis is unreachable
redis_get_stale(m, up) == marker[m]

\* redis get(marker key) under _silent_redis_call; 0 is None
redis_get(m, up) == IF up THEN marker[m] ELSE 0

\* l.94: mint_id_block = _silent_redis_call(get, marker key)
S2Get(p, up) ==
    /\ poll[p].pc = "l94"
    /\ poll' = [poll EXCEPT ![p].pc = "l95", ![p].mark = redis_get(poll[p].mid, up),
                             ![p].reached = up]
    /\ UNCHANGED <<confVars, ledgerVars, cacheVars, mintVars, defaultBlock, histVars>>

\* a write under a key that does not depend on the mint id
redis_set_shared(m, v, up) == IF up THEN [x \in MintIds |-> v] ELSE marker

\* redis set(marker key, v, ex=3600) under _silent_redis_call
redis_set(m, v, up) == IF up THEN [marker EXCEPT ![m] = v] ELSE marker

\* l.95-96: the marker is written, with a fresh eth.blockNumber, if none was read
MarkerWrite(p, up) ==
    IF poll[p].mark = 0 THEN redis_set(poll[p].mid, height, up) ELSE marker

\* Step 2 counting from the current height whatever marker was read
Step2StatusNoMarker(current_block_number, mint_id_block) ==
    build_status_conf("minting", 0, ConfGet)

\* l.98-101: the reply of Step 2
Step2Status(current_block_number, mint_id_block) ==
    LET start_mint_block == IF mint_id_block # 0 THEN mint_id_block
                                                 ELSE current_block_number
        confirmations == current_block_number - start_mint_block
        rest_confirmations == ConfGet - confirmations
    IN  build_status_conf("minting", confirmations, rest_confirmations)

\* l.95-101
S2Set(p, up) ==
    /\ poll[p].pc = "l95"
    /\ marker' = MarkerWrite(p, up)
    /\ Reply(p, Step2Status(poll[p].cur, poll[p].mark), "step2", up /\ poll[p].mark = 0)
    /\ UNCHANGED hints
    /\ UNCHANGED <<confVars, ledgerVars, mintVars, defaultBlock>>

\* a read under a key that does not depend on the mint id
redis_lrange_shared(m, up) == IF up THEN hints["m1"] ELSE <<>>

\* redis lrange(key, 0, -1) under _silent_redis_call, "or []"
redis_lrange(m, up) == IF up THEN hints[m] ELSE <<>>

\* l.103: tx_bin_ids = _silent_redis_call(lrange, key, 0, -1) or []
Lrange(p, up) ==
    /\ poll[p].pc = "l103"
    /\ poll' = [poll EXCEPT ![p].pc = "l106", ![p].fetched = redis_lrange(poll[p].mid, up),
                             ![p].reached = up]
    /\ UNCHANGED <<confVars, ledgerVars, cacheVars, mintVars, defaultBlock, histVars>>

\* every hint kept, whether the ledger knows its transaction or not
getTransactions_all(tx_bin_ids) == tx_bin_ids

\* l.106: list(filter(None, (eth.getTransaction(tx_id) for tx_id in tx_bin_ids)))
getTransactions(tx_bin_ids) == SelectSeq(tx_bin_ids, TxKnown)

\* the loop looking at the first transaction only
FailedScanHead(txs, no_receipt) ==
    /\ txs # <<>>
    /\ TxHasReceipt(Head(txs), no_receipt)
    /\ 0 = get_receipt_status(Head(txs))

\* l.109-120: the loop over txs; TRUE iff it returns 'failed'
RECURSIVE FailedScan(_, _)
FailedScan(txs, no_receipt) ==
    IF txs = <<>> THEN FALSE
    ELSE LET tx == Head(txs) IN
         IF ~TxMined(tx) THEN FailedScan(Tail(txs), no_receipt)
         ELSE IF ~TxHasReceipt(tx, no_receipt) THEN FailedScan(Tail(txs), no_receipt)
         ELSE IF 0 = get_receipt_status(tx) THEN TRUE
         ELSE FailedScan(Tail(txs), no_receipt)

\* the hint fallback replying 'not_minted' without asking eth.syncing
HintStatusNoSync(tx_bin_ids, is_syncing, no_receipt) ==
    LET txs == SelectSeq(tx_bin_ids, TxKnown) IN
    IF FailedScan(txs, no_receipt) THEN build_status("failed")
    ELSE IF txs # <<>> THEN build_status_conf("minting", 0, ConfGet)
    ELSE build_status("not_minted")

\* l.106-131: the reply of the hint fallback for the fetched tx_bin_ids, where
\* eth.syncing answers is_syncing and no receipt is served for no_receipt
HintStatus(tx_bin_ids, is_syncing, no_receipt) ==
    LET txs == getTransactions(tx_bin_ids) IN
    IF FailedScan(txs, no_receipt) THEN build_status("failed")
    ELSE IF txs # <<>> THEN build_status_conf("minting", 0, ConfGet)
    ELSE IF is_syncing THEN build_status("node_syncing")
    ELSE build_status("not_minted")

\* l.106-131
Scan(p, is_syncing, no_receipt) ==
    /\ poll[p].pc = "l106"
    /\ \A t \in no_receipt : \E i \in DOMAIN poll[p].fetched :
            poll[p].fetched[i] = t /\ TxMined(t)
    /\ poll' = [poll EXCEPT ![p] = [Idle EXCEPT
                    !.pc = "done", !.mid = poll[p].mid, !.cb = poll[p].cb,
                    !.after = poll[p].after, !.fetched = poll[p].fetched,
                    !.sync = is_syncing, !.nr = no_receipt, !.via = "hints",
                    !.reached = poll[p].reached, !.seen = poll[p].seen,
                    !.result = HintStatus(poll[p].fetched, is_syncing, no_receipt)]]
    /\ lastConf' = LastConfAfter(poll[p].mid,
                                 HintStatus(poll[p].fetched, is_syncing, no_receipt))
    /\ UNCHANGED <<everMinted, mintDone>>
    /\ UNCHANGED <<confVars, ledgerVars, cacheVars, mintVars, defaultBlock>>

\* the reply has been delivered; the thread is free for the next request
PollReturn(p) ==
    /\ poll[p].pc \in {"done", "raised"}
    /\ poll' = [poll EXCEPT ![p] = Idle]
    /\ UNCHANGED <<confVars, ledgerVars, cacheVars, mintVars, defaultBlock, histVars>>

\* ------------------------------------------------------ the specification
Next ==
    \/ Grow
    \/ \E t \in TxIds, ok \in BOOLEAN : Mine(t, ok)
    \/ \E t \in TxIds : Drop(t)
    \/ \E m \in MintIds : ExpireMarker(m)
    \/ \E m \in MintIds : MintTransact(m)
    \/ \E t \in TxIds, up \in BOOLEAN : MintLpush(t, up)
    \/ \E p \in Pollers, m \in MintIds : PollStart(p, m)
    \/ \E p \in Pollers : S1Save(p)
    \/ \E p \in Pollers : S1Pin(p)
    \/ \E p \in Pollers : S1Call(p)
    \/ \E p \in Pollers : S1Raise(p)
    \/ \E p \in Pollers : S1Unwind(p)
    \/ \E p \in Pollers, up \in BOOLEAN : S1Finish(p, up)
    \/ \E p \in Pollers : S2Call(p)
    \/ \E p \in Pollers : S2Height(p)
    \/ \E p \in Pollers, up \in BOOLEAN : S2Get(p, up)
    \/ \E p \in Pollers, up \in BOOLEAN : S2Set(p, up)
    \/ \E p \in Pollers, up \in BOOLEAN : Lrange(p, up)
    \/ \E p \in Pollers, is_syncing \in BOOLEAN, no_receipt \in SUBSET TxIds :
            Scan(p, is_syncing, no_receipt)
    \/ \E p \in Pollers : PollReturn(p)

Spec == Init /\ [][Next]_vars

SpecSeq == InitSeq /\ [][Next]_vars

\* ------------------------------------------- the state lock and its holders
\* a lock request that only an exclusive holder can refuse
flock_grants_readers(shared) == lockEx = "none"

\* filelock.py l.26-29: flock(fd, LOCK_SH|LOCK_NB) or flock(fd, LOCK_EX|LOCK_NB)
\* on a fresh descriptor succeeds; otherwise it fails with EWOULDBLOCK. The
\* locks held through other descriptors count, the caller's own included.
flock_grants(shared) ==
    IF shared THEN lockEx = "none" ELSE lockEx = "none" /\ lockSh = {}

\* l.402-403: what _State.__init__ raises when the lock is refused
BusyError == "Can't acquire state lock: looks like another instance is running"

\* l.293 _load_state: lock_shared = self.wsgi_mode. ctl.py builds its
\* MinterService with wsgi_mode False, install_simple_token.py l.96 with True
lock_shared(c) == proc[c].cmd = "install"

\* the administrative operation process c runs (install_simple_token.py l.119
\* calls deploy_contract)
Op(c) == IF proc[c].cmd = "install" THEN "deploy_contract" ELSE proc[c].cmd

\* the process is inside the 'with self._load_state() as state' of an operation
InOperation(c) == proc[c].pc \in {"body", "wait", "unlock"}

\* a command is started: ctl.py l.40-70, install_simple_token.py main
ProcStart(c, cmd) ==
    /\ proc[c].pc = "idle"
    /\ c = "a2" => proc["a1"].pc # "idle"       \* processes are interchangeable
    /\ proc' = [proc EXCEPT ![c] =
            [NoProc EXCEPT !.cmd = cmd, !.pc = IF cmd = "install" THEN "acct" ELSE "lock"]]
    /\ UNCHANGED <<stateFile, lockEx, lockSh, svc>>
    /\ UNCHANGED <<keyVars, gasVars, accounts, confSet, confN, deployBlock, threads, txCap>>
    /\ UNCHANGED <<ledgerVars, cacheVars, mintVars, defaultBlock, poll, histVars>>

\* l.138, l.189, l.218 with l.396-413: the operation's _load_state(). The lock is
\* asked for without waiting; refused, RuntimeError ends the operation before
\* the file is opened; granted, the file is read.
LoadState(c) ==
    /\ proc[c].pc = "lock"
    /\ IF flock_grants(lock_shared(c))
       THEN /\ proc' = [proc EXCEPT ![c].pc = "body", ![c].st = stateFile]
            /\ lockEx' = IF lock_shared(c) THEN lockEx ELSE c
            /\ lockSh' = IF lock_shared(c) THEN lockSh \cup {c} ELSE lockSh
       ELSE /\ proc' = [proc EXCEPT ![c].pc = "failed", ![c].err = BusyError]
            /\ UNCHANGED <<lockEx, lockSh>>
    /\ UNCHANGED <<stateFile, svc>>
    /\ UNCHANGED <<keyVars, gasVars, accounts, confSet, confN, deployBlock, threads, txCap>>
    /\ UNCHANGED <<ledgerVars, cacheVars, mintVars, defaultBlock, poll, histVars>>

\* a state that never shows an account
account_address_none(st) == FALSE

\* l.442-444 _State.account_address is not None
account_address(st) == st.account

\* l.139-152 init_account under the lock: UsageError if the loaded state has an
\* account, else personal.newAccount makes one, which is stored and saved
InitAccount(c) ==
    /\ proc[c].pc = "body" /\ Op(c) = "init_account"
    /\ IF account_address(proc[c].st)
       THEN /\ proc' = [proc EXCEPT ![c].pc = "unlock",
                                     ![c].err = "Account is already initialized"]
            /\ UNCHANGED <<stateFile, accounts>>
       ELSE /\ proc' = [proc EXCEPT ![c].pc = "unlock", ![c].st.account = TRUE]
            /\ accounts' = accounts + 1
            /\ stateFile' = [proc[c].st EXCEPT !.account = TRUE]
    /\ UNCHANGED <<lockEx, lockSh, svc>>
    /\ UNCHANGED <<keyVars, gasVars, confSet, confN, deployBlock, threads, txCap>>
    /\ UNCHANGED <<ledgerVars, cacheVars, mintVars, defaultBlock, poll, histVars>>

\* l.190-200 deploy_contract, l.219-231 recover_ether under the lock:
\* get_account_address raises if the loaded state has no account; else the
\* transaction is sent, unless recover_ether finds nothing to send (~funded)
SendTransaction(c, funded) ==
    /\ proc[c].pc = "body" /\ Op(c) \in {"deploy_contract", "recover_ether"}
    /\ Op(c) = "deploy_contract" => funded
    /\ proc' = [proc EXCEPT
            ![c].pc = IF proc[c].st.account /\ funded THEN "wait" ELSE "unlock",
            ![c].err = IF proc[c].st.account THEN "" ELSE "account was not initialized"]
    /\ UNCHANGED <<stateFile, lockEx, lockSh, svc>>
    /\ UNCHANGED <<keyVars, gasVars, accounts, confSet, confN, deployBlock, threads, txCap>>
    /\ UNCHANGED <<ledgerVars, cacheVars, mintVars, defaultBlock, poll, histVars>>

\* the ledger mines the transaction an operation waits for
MineSent(c) ==
    /\ proc[c].pc = "wait" /\ proc[c].rcpt = 0
    /\ height < MaxHeight
    /\ height' = height + 1
    /\ proc' = [proc EXCEPT ![c].rcpt = height + 1]
    /\ UNCHANGED <<stateFile, lockEx, lockSh, svc>>
    /\ UNCHANGED <<keyVars, gasVars, accounts, confSet, confN, deployBlock, threads, txCap>>
    /\ UNCHANGED <<processedAt, txMint, txState, nTx, balance>>
    /\ UNCHANGED <<cacheVars, mintVars, defaultBlock, poll, histVars>>

\* l.320-321: receipt is not None
receipt_found(c) == proc[c].rcpt # 0

\* l.318-323 _get_receipt_blocking, one turn of its loop: without a receipt it
\* sleeps a second and asks again; with one it returns, and deploy_contract
\* then stores the contract and the receipt's block and saves (l.203-208)
GetReceiptBlocking(c) ==
    /\ proc[c].pc = "wait"
    /\ IF receipt_found(c)
       THEN /\ proc' = [proc EXCEPT ![c].pc = "unlock", ![c].rcpt = 0,
                                     ![c].st.contract = @ \/ Op(c) = "deploy_contract"]
            /\ stateFile' = IF Op(c) = "deploy_contract"
                            THEN [proc[c].st EXCEPT !.contract = TRUE] ELSE stateFile
            /\ deployBlock' = IF Op(c) = "deploy_contract"
                              THEN proc[c].rcpt ELSE deployBlock
       ELSE UNCHANGED <<proc, stateFile, deployBlock>>
    /\ UNCHANGED <<lockEx, lockSh, svc>>
    /\ UNCHANGED <<keyVars, gasVars, accounts, confSet, confN, threads, txCap>>
    /\ UNCHANGED <<ledgerVars, cacheVars, mintVars, defaultBlock, poll, histVars>>

\* a ledger call of the operation raises (the node does not answer):
\* eth.gasPrice or getBlock of l.184-185, before deploy_contract asks for the
\* lock, which ends the operation; or, under the lock, personal.newAccount
\* (l.143, reached without an account), unlockAccount, deploy, sendTransaction
\* (l.193-197, l.219-228, reached with an account) or getTransactionReceipt
\* (l.320), which leaves the with block
LedgerError(c) ==
    /\ \/ proc[c].pc = "lock" /\ Op(c) = "deploy_contract"
       \/ /\ proc[c].pc = "body"
          /\ account_address(proc[c].st) <=> Op(c) # "init_account"
       \/ proc[c].pc = "wait"
    /\ proc' = [proc EXCEPT ![c].pc = IF proc[c].pc = "lock" THEN "failed" ELSE "unlock",
                            ![c].err = "ledger error", ![c].rcpt = 0]
    /\ UNCHANGED <<stateFile, lockEx, lockSh, svc>>
    /\ UNCHANGED <<keyVars, gasVars, accounts, confSet, confN, deployBlock, threads, txCap>>
    /\ UNCHANGED <<ledgerVars, cacheVars, mintVars, defaultBlock, poll, histVars>>

\* an unlock that leaves the lock where it is
unlock_kept(c) == lockEx

\* filelock.py l.42-46 unlock() on the descriptor of an exclusive lock
unlock(c) == IF lockEx = c THEN "none" ELSE lockEx

\* l.420-422 _State.__exit__: the operation's lock is released, on return and on
\* exception alike. A process that holds the lock of its wsgi-mode
\* MinterService as well keeps that one.
StateExit(c) ==
    /\ proc[c].pc = "unlock"
    /\ lockEx' = unlock(c)
    /\ lockSh' = IF proc[c].outer THEN lockSh ELSE lockSh \ {c}
    /\ proc' = [proc EXCEPT ![c].pc = IF proc[c].err # "" THEN "failed"
                                      ELSE IF proc[c].cmd = "install" THEN "close"
                                      ELSE "done"]
    /\ UNCHANGED <<stateFile, svc>>
    /\ UNCHANGED <<keyVars, gasVars, accounts, confSet, confN, deployBlock, threads, txCap>>
    /\ UNCHANGED <<ledgerVars, cacheVars, mintVars, defaultBlock, poll, histVars>>

\* the process terminates, by return or by the exception; the locks it still
\* holds go with it
ProcExit(c) ==
    /\ proc[c].pc \in {"failed", "done"}
    /\ proc' = [proc EXCEPT ![c] = NoProc]
    /\ lockEx' = IF lockEx = c THEN "none" ELSE lockEx
    /\ lockSh' = lockSh \ {c}
    /\ UNCHANGED <<stateFile, svc>>
    /\ UNCHANGED <<keyVars, gasVars, accounts, confSet, confN, deployBlock, threads, txCap>>
    /\ UNCHANGED <<ledgerVars, cacheVars, mintVars, defaultBlock, poll, histVars>>

\* ------------------------------------------------ install_simple_token.py
\* l.92-94 with minter.py l.154-164 get_or_init_account: the state is loaded
\* under the exclusive lock; with an account in it the address is returned and
\* the state closed; without, init_account asks for the lock again while this
\* process holds it, is refused, and the exception ends the process
InstallGetAccount(c) ==
    /\ proc[c].pc = "acct"
    /\ IF ~flock_grants(FALSE)
       THEN /\ proc' = [proc EXCEPT ![c].pc = "failed", ![c].err = BusyError]
            /\ UNCHANGED lockEx
       ELSE IF account_address(stateFile)
       THEN /\ proc' = [proc EXCEPT ![c].pc = "ctor"]
            /\ UNCHANGED lockEx
       ELSE /\ proc' = [proc EXCEPT ![c].pc = "failed", ![c].err = BusyError]
            /\ lockEx' = c
    /\ UNCHANGED <<stateFile, lockSh, svc>>
    /\ UNCHANGED <<keyVars, gasVars, accounts, confSet, confN, deployBlock, threads, txCap>>
    /\ UNCHANGED <<ledgerVars, cacheVars, mintVars, defaultBlock, poll, histVars>>

\* l.96 with minter.py l.23-34: MinterService(..., True) loads the state under
\* the shared lock and keeps it
InstallService(c) ==
    /\ proc[c].pc = "ctor"
    /\ IF flock_grants(TRUE)
       THEN /\ proc' = [proc EXCEPT ![c].pc = "check", ![c].st = stateFile,
                                     ![c].outer = TRUE]
            /\ lockSh' = lockSh \cup {c}
       ELSE /\ proc' = [proc EXCEPT ![c].pc = "failed", ![c].err = BusyError]
            /\ UNCHANGED lockSh
    /\ UNCHANGED <<stateFile, lockEx, svc>>
    /\ UNCHANGED <<keyVars, gasVars, accounts, confSet, confN, deployBlock, threads, txCap>>
    /\ UNCHANGED <<ledgerVars, cacheVars, mintVars, defaultBlock, poll, histVars>>

\* l.102-119: if the loaded state has no contract, the token is deployed (its
\* receipt awaited) and deploy_contract is called
InstallCheck(c) ==
    /\ proc[c].pc = "check"
    /\ IF get_minter_contract_address(proc[c].st) = ""
       THEN /\ proc' = [proc EXCEPT ![c].pc = "close"]
            /\ UNCHANGED height
       ELSE /\ height < MaxHeight
            /\ height' = height + 1
            /\ proc' = [proc EXCEPT ![c].pc = "lock"]
    /\ UNCHANGED <<stateFile, lockEx, lockSh, svc>>
    /\ UNCHANGED <<keyVars, gasVars, accounts, confSet, confN, deployBlock, threads, txCap>>
    /\ UNCHANGED <<processedAt, txMint, txState, nTx, balance>>
    /\ UNCHANGED <<cacheVars, mintVars, defaultBlock, poll, histVars>>

\* l.96 __exit__ with minter.py l.249-254, l.471-475: the wsgi-mode state is
\* closed; it was not modified, so save() writes nothing; the lock is released
InstallClose(c) ==
    /\ proc[c].pc = "close"
    /\ proc' = [proc EXCEPT ![c].pc = "done", ![c].outer = FALSE]
    /\ lockSh' = lockSh \ {c}
    /\ UNCHANGED <<stateFile, lockEx, svc>>
    /\ UNCHANGED <<keyVars, gasVars, accounts, confSet, confN, deployBlock, threads, txCap>>
    /\ UNCHANGED <<ledgerVars, cacheVars, mintVars, defaultBlock, poll, histVars>>

\* ---------------------------------------------------------- the service
\* wsgi_app.py l.41 with minter.py l.23-34: the service starts. It loads the
\* state under the shared lock, which it keeps for its lifetime, and unlocks
\* the account; refused the lock or without an account it does not come up
ServiceStart ==
    /\ ~svc.up
    /\ flock_grants(TRUE)
    /\ stateFile.account
    /\ svc' = [up |-> TRUE, st |-> stateFile]
    /\ lockSh' = lockSh \cup {"svc"}
    /\ UNCHANGED <<stateFile, lockEx, proc>>
    /\ UNCHANGED <<keyVars, gasVars, accounts, confSet, confN, deployBlock, threads, txCap>>
    /\ UNCHANGED <<ledgerVars, cacheVars, mintVars, defaultBlock, poll, histVars>>

\* the service process ends, no request being served; its lock goes with it
ServiceStop ==
    /\ svc.up
    /\ pushQ = {}
    /\ svc' = ServiceDown
    /\ lockSh' = lockSh \ {"svc"}
    /\ UNCHANGED <<stateFile, lockEx, proc>>
    /\ UNCHANGED <<keyVars, gasVars, accounts, confSet, confN, deployBlock, threads, txCap>>
    /\ UNCHANGED <<ledgerVars, cacheVars, mintVars, defaultBlock, poll, histVars>>

\* --------------------------------------------------------- GET /mintTokens
\* the request arguments tried
MintIdArgs == {"", "m1"}
AddressArgs == {"investor1", "0xbad"}
TokensArgs == {"abc", "-5", "5"}

\* Web3.isAddress(address)
isAddress(address) == address \in Investors

\* python int(tokens): whether it raises ValueError, and its value if not
int_raises(tokens) == tokens \notin {"-5", "0", "5"}
int(tokens) == IF tokens = "-5" THEN 0 - 5 ELSE IF tokens = "5" THEN 5 ELSE 0

\* wsgi_app.py l.51, l.65-95: the arguments of wsgi_minter.mint_tokens are
\* evaluated left to right; the message of the first abort(400, ...), "" if none
ValidateRequest(mint_id, address, tokens) ==
    IF mint_id = "" THEN "empty mint_id"
    ELSE IF ~isAddress(address) THEN "bad address"
    ELSE IF int_raises(tokens) THEN "bad tokens_amount"
    ELSE ""

Request(mint_id, address, tokens) ==
    [NoHttp EXCEPT !.mint_id = mint_id, !.address = address, !.tokens = tokens]

\* wsgi_app.py l.49-52 with minter.py l.52-59: the request is validated, then
\* mint_tokens reads gas price and gas limit from the ledger (l.54-55), takes
\* the contract (l.57, RuntimeError if the service loaded a state without one)
\* and sends the transaction. An amount below zero does not fit the contract's
\* uint256: either the encoder raises or the transaction is sent (encodes).
HttpMintTokens(mint_id, address, tokens, encodes) ==
    /\ svc.up
    /\ http.status # "sent"
    /\ encodes \/ (~int_raises(tokens) /\ int(tokens) < 0)
    /\ LET bad == ValidateRequest(mint_id, address, tokens)
           nd == get_minter_contract_address(svc.st)
           req == Request(mint_id, address, tokens)
       IN  IF bad # ""
           THEN /\ http' = [req EXCEPT !.status = "400", !.error = bad]
                /\ UNCHANGED <<ledgerVars, pushQ>>
           ELSE IF nd # ""
           THEN /\ http' = [req EXCEPT !.status = "500", !.error = nd, !.asked = TRUE]
                /\ UNCHANGED <<ledgerVars, pushQ>>
           ELSE IF ~encodes
           THEN /\ http' = [req EXCEPT !.status = "500", !.error = "encoding",
                                         !.asked = TRUE]
                /\ UNCHANGED <<ledgerVars, pushQ>>
           ELSE /\ nTx < txCap
                /\ transact_mint(mint_id)
                /\ http' = [req EXCEPT !.status = "sent", !.asked = TRUE,
                                         !.tx = nTx + 1]
    /\ UNCHANGED <<confVars, cacheVars, defaultBlock, poll, histVars>>

\* ------------------------------------------- the administrative workload
\* a fresh installation: no state.yaml, no process, an empty chain
InitOps ==
    /\ confSet = FALSE
    /\ confN = 0
    /\ deployBlock = 0
    /\ height = 0
    /\ processedAt = [m \in MintIds |-> 0]
    /\ txMint = [t \in TxIds |-> "m1"]
    /\ txState = [t \in TxIds |-> "none"]
    /\ nTx = 0
    /\ balance = [a \in Investors |-> 0]
    /\ hints = [m \in MintIds |-> <<>>]
    /\ marker = [m \in MintIds |-> 0]
    /\ pushQ = {}
    /\ defaultBlock = Latest
    /\ poll = [p \in Pollers |-> Idle]
    /\ everMinted = {}
    /\ lastConf = [m \in MintIds |-> 0]
    /\ mintDone = [t \in TxIds |-> "no"]
    /\ threads = {}
    /\ txCap = RaceTx
    /\ stateFile = NoState
    /\ accounts = 0
    /\ lockEx = "none"
    /\ lockSh = {}
    /\ proc = [c \in Procs |-> NoProc]
    /\ svc = ServiceDown
    /\ http = NoHttp
    /\ InitKeys
    /\ InitNoGas

NextOps ==
    \/ \E c \in Procs, cmd \in Commands : ProcStart(c, cmd)
    \/ \E c \in Procs : LoadState(c)
    \/ \E c \in Procs : InitAccount(c)
    \/ \E c \in Procs, funded \in BOOLEAN : SendTransaction(c, funded)
    \/ \E c \in Procs : MineSent(c)
    \/ \E c \in Procs : GetReceiptBlocking(c)
    \/ \E c \in Procs : LedgerError(c)
    \/ \E c \in Procs : StateExit(c)
    \/ \E c \in Procs : ProcExit(c)
    \/ \E c \in Procs : InstallGetAccount(c)
    \/ \E c \in Procs : InstallService(c)
    \/ \E c \in Procs : InstallCheck(c)
    \/ \E c \in Procs : InstallClose(c)
    \/ ServiceStart
    \/ ServiceStop
    \/ \E mint_id \in MintIdArgs, address \in AddressArgs, tokens \in TokensArgs,
          encodes \in BOOLEAN : HttpMintTokens(mint_id, address, tokens, encodes)
    \/ \E t \in TxIds, up \in BOOLEAN : MintLpush(t, up)

SpecOps == InitOps /\ [][NextOps]_vars

\* ------------------------------------------------------- the keys workload
MaxPid == 3         \* service processes started one after the other

\* l.52, l.57-62: mint_tokens prepares the mint id, passes it to the contract
\* and pushes the hash under the hint key
KeyMintTokens(mint_id) ==
    /\ keyMint' = [pid |-> keyPid, arg |-> mint_id, contract |-> keyContract,
                   mint_id |-> prepare_mint_id(mint_id),
                   hints |-> redis_mint_tx_key(keyContract, prepare_mint_id(mint_id), ""),
                   marker |-> <<>>]
    /\ UNCHANGED <<keyPid, keyContract, keyStatus>>
    /\ UNCHANGED <<stateFile, lockEx, lockSh, proc, svc, accounts, gasVars>>
    /\ UNCHANGED <<confSet, confN, deployBlock, threads, txCap>>
    /\ UNCHANGED <<ledgerVars, cacheVars, mintVars, defaultBlock, poll, histVars>>

\* l.83, l.92-96, l.103, l.280-282: get_minting_status prepares the mint id,
\* asks the contract about it and uses the marker key and the hint key
KeyGetMintingStatus(mint_id) ==
    /\ keyStatus' = [pid |-> keyPid, arg |-> mint_id, contract |-> keyContract,
                     mint_id |-> prepare_mint_id(mint_id),
                     hints |-> redis_mint_tx_key(keyContract, prepare_mint_id(mint_id), ""),
                     marker |-> redis_mint_tx_key(keyContract, prepare_mint_id(mint_id), "bh")]
    /\ UNCHANGED <<keyPid, keyContract, keyMint>>
    /\ UNCHANGED <<stateFile, lockEx, lockSh, proc, svc, accounts, gasVars>>
    /\ UNCHANGED <<confSet, confN, deployBlock, threads, txCap>>
    /\ UNCHANGED <<ledgerVars, cacheVars, mintVars, defaultBlock, poll, histVars>>

\* the service process is replaced by a new one, which loads the state again:
\* the same contract, or another one if deploy_contract has run in between
KeyRestart(contract) ==
    /\ keyPid < MaxPid
    /\ keyPid' = keyPid + 1
    /\ keyContract' = contract
    /\ UNCHANGED <<keyMint, keyStatus>>
    /\ UNCHANGED <<stateFile, lockEx, lockSh, proc, svc, accounts, gasVars>>
    /\ UNCHANGED <<confSet, confN, deployBlock, threads, txCap>>
    /\ UNCHANGED <<ledgerVars, cacheVars, mintVars, defaultBlock, poll, histVars>>

NextKeys ==
    \/ \E mint_id \in RawIds : KeyMintTokens(mint_id)
    \/ \E mint_id \in RawIds : KeyGetMintingStatus(mint_id)
    \/ \E contract \in Contracts : KeyRestart(contract)

SpecKeys == InitSeq /\ [][NextKeys]_vars

\* -------------------------------------------------- the gas limit workload
\* gasLimit * 0.9, in tenths. The product is a double; for gas limits below
\* 2^50 it differs from the exact product by less than the 0.1 that separates
\* the exact product from the next integer, so int() sees the exact value.
times_0_9(gasLimit) == 9 * gasLimit

\* int(x) for x given in tenths: truncation toward zero
int_tenths(x) == IF x >= 0 THEN x \div 10 ELSE 0 - ((0 - x) \div 10)

\* min(a, b)
min(a, b) == IF a <= b THEN a ELSE b

\* a gas limit that takes the configured value as it is
gas_limit_conf ==
    LET limit == int_tenths(times_0_9(blockGasLimit))
    IN  IF confGas.set THEN confGas.v ELSE limit

\* l.303-304: _gas_limit()
gas_limit ==
    LET limit == int_tenths(times_0_9(blockGasLimit))
    IN  IF confGas.set THEN min(confGas.v, limit) ELSE limit

\* l.55-58: mint_tokens asks _gas_limit() and sends the transaction with it
GasMintTokens ==
    /\ mintGas' = [sent |-> TRUE, block |-> blockGasLimit, conf |-> confGas,
                   gas |-> gas_limit]
    /\ UNCHANGED <<blockGasLimit, confGas>>
    /\ UNCHANGED <<stateFile, lockEx, lockSh, proc, svc, accounts, keyVars>>
    /\ UNCHANGED <<confSet, confN, deployBlock, threads, txCap>>
    /\ UNCHANGED <<ledgerVars, cacheVars, mintVars, defaultBlock, poll, histVars>>

\* the chain's latest block is replaced by one with gas limit g
GasNewBlock(g) ==
    /\ blockGasLimit' = g
    /\ UNCHANGED <<confGas, mintGas>>
    /\ UNCHANGED <<stateFile, lockEx, lockSh, proc, svc, accounts, keyVars>>
    /\ UNCHANGED <<confSet, confN, deployBlock, threads, txCap>>
    /\ UNCHANGED <<ledgerVars, cacheVars, mintVars, defaultBlock, poll, histVars>>

\* the service is restarted with another conf file
GasRestart(c) ==
    /\ confGas' = c
    /\ UNCHANGED <<blockGasLimit, mintGas>>
    /\ UNCHANGED <<stateFile, lockEx, lockSh, proc, svc, accounts, keyVars>>
    /\ UNCHANGED <<confSet, confN, deployBlock, threads, txCap>>
    /\ UNCHANGED <<ledgerVars, cacheVars, mintVars, defaultBlock, poll, histVars>>

InitGas ==
    /\ InitState
    /\ threads = {"p1"}
    /\ txCap = MaxTx
    /\ blockGasLimit \in 0..MaxGas
    /\ confGas \in GasLimitConf
    /\ mintGas = NoMintGas

NextGas ==
    \/ GasMintTokens
    \/ \E g \in 0..MaxGas : GasNewBlock(g)
    \/ \E c \in GasLimitConf : GasRestart(c)

SpecGas == InitGas /\ [][NextGas]_vars

TypeOK ==
    /\ height \in deployBlock..MaxHeight
    /\ defaultBlock \in 0..MaxHeight
    /\ \A m \in MintIds : processedAt[m] \in 0..height /\ marker[m] \in 0..height
    /\ \A t \in TxIds : txState[t] \in TxStates
    /\ \A p \in Pollers : poll[p].pc \in {"idle", "l274", "l275", "l280", "l282", "l92",
                                          "l93", "l94", "l95", "l103", "l106", "done",
                                          "l286", "raised"}

\* =================================================================== claims

\* a call of thread p has replied
Replied(p) == poll[p].pc = "done"

\* C1: once a call has replied 'minted' for a mint id, every call for that id
\* that begins later replies 'minted' too.
C1_MintedIsTerminal ==
    \A p \in Pollers : Replied(p) /\ poll[p].after => poll[p].result.status = "minted"

\* C2: with require_confirmations = N > 0, a call replies 'minted' only if the
\* contract shows the id processed as of its confirmed_block = height - N.
C2_MintedOnlyIfConfirmed ==
    \A p \in Pollers :
        Replied(p) /\ ConfGet > 0 /\ poll[p].result.status = "minted"
            => ProcessedAsOf(poll[p].mid, poll[p].cb)

\* C3: with N > 0, under every interleaving, the Step 1 contract read of a call
\* is evaluated at that call's own confirmed_block and its Step 2 contract read
\* at the chain head.
C3_ReadsAtOwnBlock ==
    [][\A p \in Pollers :
        /\ (ConfGet > 0 /\ poll[p].pc = "l280" /\ poll'[p].pc = "l282")
                => defaultBlock = poll[p].cb
        /\ (poll[p].pc = "l92" /\ poll'[p].pc # "l92")
                => defaultBlock = Latest]_vars

\* C4: with N > 0 and height - N < 0, the reply is 'minting', whatever the
\* hints, the contract's head state and eth.syncing are.
C4_YoungChainAlwaysMinting ==
    \A p \in Pollers :
        Replied(p) /\ ConfGet > 0 /\ poll[p].cb < 0 => poll[p].result.status = "minting"

\* C5: with N > 0 and deployment block >= height - N, the reply is 'minting',
\* whatever the hints, the contract's head state and eth.syncing are.
C5_EarlyAlwaysMinting ==
    \A p \in Pollers :
        Replied(p) /\ ConfGet > 0 /\ poll[p].cb >= 0 /\ deployBlock >= poll[p].cb
            => poll[p].result.status = "minting"

\* C6: with require_confirmations unset or 0 alike, a call makes no pinned
\* read and no deployment-block comparison (its Step 1 read is made at the
\* head, whatever the deployment block), replies 'minted' exactly when that
\* read shows the id processed, and otherwise goes on to the hints without the
\* confirmation arithmetic of Step 2.
C6_ZeroLikeUnset ==
    [][\A p \in Pollers : ConfGet = 0 =>
        /\ poll'[p].pc \notin {"l274", "l275", "l92", "l93", "l94", "l95"}
        /\ (poll[p].pc = "idle" /\ poll'[p].pc # "idle") => poll'[p].pc = "l280"
        /\ (poll[p].pc = "l280" /\ poll'[p].pc = "l282")
                => poll'[p].isConf = ProcessedAsOf(poll[p].mid, height)
        /\ (poll[p].pc = "l282" /\ poll[p].isConf)
                => poll'[p].pc \in {"l282", "done"}
        /\ (poll[p].pc = "l282" /\ poll'[p].pc = "done")
                => poll'[p].result = build_status("minted")
        /\ (poll[p].pc = "l282" /\ ~poll[p].isConf)
                => poll'[p].pc \in {"l282", "l103"}]_vars

\* C7: a call that reaches the hints and has fetched a hint that is mined with
\* receipt status 0 replies 'failed', wherever the hint sits in the list and
\* whatever the other hints are.
C7_FailedHintWins ==
    [][\A p \in Pollers :
        /\ poll[p].pc = "l106" /\ poll'[p].pc = "done"
        /\ \E i \in DOMAIN poll[p].fetched :
                /\ txState[poll[p].fetched[i]] = "failed"
                /\ poll[p].fetched[i] \notin poll'[p].nr
        => poll'[p].result = build_status("failed")]_vars

\* a call replied 'failed' on two hints, the failed one behind a pending one
C7_Witness ==
    \E p \in Pollers :
        /\ Replied(p) /\ poll[p].via = "hints" /\ poll[p].result.status = "failed"
        /\ Len(poll[p].fetched) = 2
        /\ txState[poll[p].fetched[1]] = "pending"
        /\ txState[poll[p].fetched[2]] = "failed"

\* C8: a call that reaches the hints and has fetched none replies
\* 'node_syncing' if eth.syncing answered true and 'not_minted' otherwise.
C8_NoHints ==
    \A p \in Pollers :
        Replied(p) /\ poll[p].via = "hints" /\ poll[p].fetched = <<>>
            => poll[p].result = IF poll[p].sync THEN build_status("node_syncing")
                                               ELSE build_status("not_minted")

\* a call replied 'node_syncing' for an id no transaction was ever submitted for
C8_Witness ==
    \E p \in Pollers :
        /\ Replied(p) /\ poll[p].via = "hints" /\ poll[p].fetched = <<>>
        /\ poll[p].result.status = "node_syncing"
        /\ \A t \in TxIds : TxKnown(t) => txMint[t] # poll[p].mid

\* C9: with N > 0, the reply of Step 2 is 'minting' with confirmations =
\* current height - anchor and rest_confirmations = N - confirmations, the
\* anchor being the marker read from the cache, or the current height (hence
\* 0 and N) if none was read.
C9_Step2Arithmetic ==
    \A p \in Pollers :
        Replied(p) /\ poll[p].via = "step2" =>
            LET r == poll[p].result
                anchorBlock == IF poll[p].mark # 0 THEN poll[p].mark ELSE poll[p].cur
            IN  /\ ConfGet > 0
                /\ r.status = "minting" /\ r.fields
                /\ r.confirmations = poll[p].cur - anchorBlock
                /\ r.rest_confirmations = ConfGet - r.confirmations
                /\ poll[p].mark = 0 => r.confirmations = 0 /\ r.rest_confirmations = ConfGet

\* a call replied with one confirmation counted from a marker read from the cache
C9_Witness ==
    \E p \in Pollers :
        /\ Replied(p) /\ poll[p].via = "step2" /\ poll[p].mark # 0
        /\ poll[p].result.confirmations = 1

\* C10: under every interleaving of calls, a marker that holds a block height
\* is not replaced by another value; it can only expire.
C10_MarkerWrittenOnce ==
    [][\A m \in MintIds : marker[m] # 0 => marker'[m] \in {marker[m], 0}]_vars

\* C11: for one mint id, as long as its marker has not expired, the
\* confirmations of a 'minting' reply are not below those of the 'minting'
\* reply given before it.
C11_ConfirmationsMonotone ==
    [][\A p \in Pollers :
        /\ ~Replied(p) /\ poll'[p].pc = "done"
        /\ poll'[p].result.status = "minting"
        /\ lastConf[poll[p].mid] # Lost
        => poll'[p].result.confirmations >= lastConf[poll[p].mid]]_vars

\* C12: every mint_tokens call sends exactly one transaction and returns its
\* handle, whether the cache recorded the hint or was unreachable; none raises
\* on account of the cache.
C12_SubmitSurvivesOutage ==
    /\ \A t \in TxIds :
        /\ mintDone[t] \in {"no", "done", "none"}
        /\ mintDone[t] # "no" => txState[t] # "none" /\ t \notin pushQ
        /\ txState[t] # "none" => t \in pushQ \/ mintDone[t] # "no"
    /\ Cardinality(pushQ) + Cardinality({t \in TxIds : mintDone[t] # "no"}) = nTx

\* a call returned the handle of a transaction, since mined, while the cache
\* was unreachable and holds no hint
C12_Witness ==
    \E t \in TxIds :
        mintDone[t] = "none" /\ txState[t] = "ok" /\ hints[txMint[t]] = <<>>

\* C13: a call none of whose cache calls reached redis replies as it would on
\* an empty cache: 'minted' from Step 1, 'minting' with 0 confirmations from
\* Step 2, and from the hints 'node_syncing' or 'not_minted' by eth.syncing.
C13_OutageLikeEmptyCache ==
    \A p \in Pollers :
        Replied(p) /\ ~poll[p].reached =>
            /\ poll[p].via = "step1" => poll[p].result = build_status("minted")
            /\ poll[p].via = "step2"
                    => poll[p].result = build_status_conf("minting", 0, ConfGet)
            /\ poll[p].via = "hints"
                    => poll[p].result = IF poll[p].sync THEN build_status("node_syncing")
                                                        ELSE build_status("not_minted")

\* a call that could not reach the cache replied from Step 2 while the cache
\* held a marker older than the height the call read
C13_Witness ==
    \E p \in Pollers :
        /\ Replied(p) /\ ~poll[p].reached /\ poll[p].via = "step2"
        /\ marker[poll[p].mid] # 0 /\ marker[poll[p].mid] < poll[p].cur

\* the transactions whose mint_tokens call recorded a hint for mint id m
Hinted(m) == {t \in TxIds : mintDone[t] = "done" /\ txMint[t] = m}

\* C14: a mint_tokens call that reaches the cache prepends its handle to the
\* hint list of its mint id and leaves the other lists alone, under every
\* interleaving of calls; until a cleanup the list of an id holds each handle
\* so recorded exactly once.
C14_OneHintPerSubmit ==
    /\ [](\A m \in MintIds : m \notin everMinted =>
            /\ {hints[m][i] : i \in DOMAIN hints[m]} = Hinted(m)
            /\ Len(hints[m]) = Cardinality(Hinted(m)))
    /\ [][\A t \in TxIds : mintDone[t] = "no" /\ mintDone'[t] = "done" =>
            hints' = [hints EXCEPT ![txMint[t]] = <<t>> \o hints[txMint[t]]]]_vars

\* two calls for one mint id overlapped: the list holds both handles, the one
\* sent first in front
C14_Witness ==
    \E m \in MintIds : m \notin everMinted /\ hints[m] = <<1, 2>>

\* C15: a mint transaction mined for a mint id that is processed already
\* changes no balance and no processed flag; the one mined first credits its
\* own recipient with its own amount; and, requests being served one at a
\* time, a call that begins after a 'minted' reply for the id replies 'minted'.
C15_ResubmitChangesNothing ==
    /\ [][\A t \in TxIds : txState[t] = "pending" /\ txState'[t] = "ok" =>
            IF processedAt[txMint[t]] # 0
            THEN balance' = balance /\ processedAt' = processedAt
            ELSE balance' = [balance EXCEPT ![Recipient(t)] = @ + Amount(t)]]_vars
    /\ [][balance' # balance => \E t \in TxIds : txState[t] = "pending" /\ txState'[t] = "ok"]_vars
    /\ [](\A p \in Pollers :
            Replied(p) /\ poll[p].after /\ threads = {"p1"}
                => poll[p].result.status = "minted")

\* the mint of an id was mined for investor1, then a second one for investor2;
\* only investor1 was credited, and a call made after a 'minted' reply replied
\* 'minted'
C15_Witness ==
    /\ txMint[1] = txMint[2] /\ txState[1] = "ok" /\ txState[2] = "ok"
    /\ balance = [a \in Investors |-> IF a = "investor1" THEN 1 ELSE 0]
    /\ \E p \in Pollers : Replied(p) /\ poll[p].after /\ poll[p].result.status = "minted"

\* no mint transaction was ever sent for mint id m
NeverSubmitted(m) == \A t \in TxIds : txState[t] # "none" => txMint[t] # m

\* C16: whatever is submitted and mined for other mint ids, a call for an id
\* that was never submitted replies from the hints, 'not_minted' if the node is
\* not syncing; and with require_confirmations unset a call replies 'minted'
\* exactly when its read of the contract finds the id's mint mined.
C16_StatusPerMintId ==
    /\ [](\A p \in Pollers :
            Replied(p) /\ NeverSubmitted(poll[p].mid) =>
                /\ poll[p].via = "hints" /\ poll[p].fetched = <<>>
                /\ poll[p].result = IF poll[p].sync THEN build_status("node_syncing")
                                                    ELSE build_status("not_minted"))
    /\ [][\A p \in Pollers : ~confSet =>
            /\ (poll[p].pc = "l280" /\ poll'[p].pc = "l282")
                    => poll'[p].isConf = (processedAt[poll[p].mid] # 0)
            /\ (poll[p].pc = "l282" /\ poll'[p].pc # "l282")
                    => IF poll[p].isConf
                       THEN poll'[p].pc = "done" /\ poll'[p].result = build_status("minted")
                       ELSE poll'[p].pc = "l103"]_vars

\* with require_confirmations unset and the mint of m1 mined, its hint still
\* in the cache, a call for m2, never submitted, replied 'not_minted' while a
\* call for m1 replied 'minted'
C16_Witness ==
    /\ ~confSet /\ processedAt["m1"] # 0 /\ NeverSubmitted("m2")
    /\ \E p, q \in Pollers :
        /\ Replied(p) /\ poll[p].mid = "m2" /\ poll[p].result.status = "not_minted"
        /\ poll[p].reached
        /\ Replied(q) /\ poll[q].mid = "m1" /\ poll[q].result.status = "minted"

\* C17: a step of a get_minting_status call sends no transaction and changes
\* nothing on the ledger; if it changes the hints, it is the 'minted' reply and
\* only the list of the queried id is deleted; if it changes the markers, it is
\* the reply of Step 2 with N > 0 of a call that read no marker, and only the
\* marker of the queried id is set.
C17_ReadPath ==
    [][\A p \in Pollers : poll'[p] # poll[p] =>
        /\ ledgerVars' = ledgerVars /\ pushQ' = pushQ /\ mintDone' = mintDone
        /\ hints' # hints =>
                /\ poll'[p].pc = "done" /\ poll'[p].result.status = "minted"
                /\ hints' = [hints EXCEPT ![poll[p].mid] = <<>>]
        /\ marker' # marker =>
                /\ ConfGet > 0 /\ poll[p].mark = 0
                /\ poll'[p].pc = "done" /\ poll'[p].via = "step2"
                /\ \E v \in 1..MaxHeight :
                        marker' = [marker EXCEPT ![poll[p].mid] = v]]_vars

\* one call has set the marker of m1, a later one has deleted the hint list of
\* m1; nothing is stored for m2
C17_Witness ==
    /\ mintDone[1] = "done" /\ hints = [m \in MintIds |-> <<>>]
    /\ marker["m1"] # 0 /\ marker["m2"] = 0
    /\ \E p, q \in Pollers :
        /\ Replied(p) /\ poll[p].via = "step2" /\ poll[p].mid = "m1" /\ poll[p].reached
        /\ Replied(q) /\ poll[q].via = "step1" /\ poll[q].mid = "m1" /\ poll[q].reached

\* what the interface asks of tokens_amount: an integer, not below zero
NonNegativeInteger(tokens) == ~int_raises(tokens) /\ int(tokens) >= 0

\* C18: a /mintTokens request whose mint_id is empty, whose address is not a
\* valid address or whose tokens_amount is not a non-negative integer is
\* answered 400, without a ledger call, a transaction or a hint.
C18_BadRequestIs400 ==
    (/\ http.status # "none"
     /\ \/ http.mint_id = ""
        \/ ~isAddress(http.address)
        \/ ~NonNegativeInteger(http.tokens))
        => /\ http.status = "400"
           /\ ~http.asked
           /\ http.tx = 0
           /\ \A t \in TxIds : mintDone[t] = "no"

\* C19: a mint_tokens call made while the state the service loaded holds no
\* contract ends with the error 'contract was not deployed'; it sends no
\* transaction and writes no hint, and leaves ledger and cache as they were.
C19_NotDeployed ==
    [][(svc.up /\ ~svc.st.contract /\ http' # http)
        => /\ http'.status \in {"400", "500"}
           /\ ValidateRequest(http'.mint_id, http'.address, http'.tokens) = ""
                => /\ http'.status = "500"
                   /\ http'.error = "contract was not deployed"
           /\ http'.tx = 0
           /\ ledgerVars' = ledgerVars
           /\ cacheVars' = cacheVars
           /\ pushQ' = pushQ /\ mintDone' = mintDone]_vars

\* a valid request was refused by a service that loaded its state before the
\* contract was deployed
C19_Witness ==
    /\ svc.up /\ ~svc.st.contract /\ stateFile.contract
    /\ http.status = "500" /\ http.error = "contract was not deployed"
    /\ http.mint_id = "m1" /\ isAddress(http.address) /\ http.tokens = "5"
    /\ nTx = 0 /\ hints["m1"] = <<>>

\* C20: at most one process is inside an administrative operation (init_account,
\* deploy_contract, recover_ether) at a time, and an operation that asks for the
\* state lock while another operation or a service holds it ends at once with
\* the 'another instance is running' error, the state file neither read nor
\* written.
C20_AdminExclusive ==
    /\ [](Cardinality({c \in Procs : InOperation(c)}) <= 1)
    /\ [][\A c \in Procs :
            (/\ proc[c].pc = "lock" /\ proc'[c] # proc[c]
             /\ proc'[c].err # "ledger error"
             /\ \/ \E d \in Procs \ {c} : InOperation(d)
                \/ svc.up)
                => /\ proc'[c].pc = "failed" /\ proc'[c].err = BusyError
                   /\ proc'[c].st = proc[c].st
                   /\ stateFile' = stateFile]_vars

\* C21: state.yaml is written only by the process that holds the exclusive
\* lock, while no process holds the shared lock; a process in wsgi mode, which
\* holds the shared lock, never writes it.
C21_SingleWriter ==
    [][stateFile' # stateFile
        => /\ lockEx # "none"
           /\ lockSh = {}
           /\ proc'[lockEx] # proc[lockEx]
           /\ ~lock_shared(lockEx)]_vars

\* C22: init_account run on a state that holds an account ends with UsageError,
\* makes no account on the ledger and leaves state.yaml as it is; so at most
\* one account is ever made for the state file.
C22_InitAccountOnce ==
    /\ [](accounts <= 1 /\ (stateFile.account <=> accounts = 1))
    /\ [][\A c \in Procs :
            (/\ proc[c].pc = "body" /\ Op(c) = "init_account"
             /\ stateFile.account /\ proc'[c] # proc[c])
                => /\ proc'[c].err = "Account is already initialized"
                   /\ accounts' = accounts
                   /\ stateFile' = stateFile]_vars

\* a second init_account has ended with UsageError
C22_Witness ==
    \E c \in Procs :
        /\ proc[c].cmd = "init_account" /\ proc[c].pc = "failed"
        /\ proc[c].err = "Account is already initialized"
        /\ accounts = 1 /\ stateFile.account

C24_ReplyShape ==
    \A p \in Pollers :
        Replied(p)
            => /\ poll[p].result.status \in
                    {"minted", "minting", "failed", "node_syncing", "not_minted"}
               /\ poll[p].result.fields => poll[p].result.status = "minting"

\* one call has replied 'minting' with its counters, another 'minted' without
C24_Witness ==
    \E p, q \in Pollers :
        /\ Replied(p) /\ poll[p].result.status = "minting" /\ poll[p].result.fields
        /\ Replied(q) /\ poll[q].result.status = "minted" /\ ~poll[q].result.fields

\* C25: a call that began when the contract showed the mint id processed, at
\* its confirmed block or, with require_confirmations > 0, at the head, replies
\* 'minted' or 'minting', whatever the hints are.
C25_ContractOutranksHints ==
    \A p \in Pollers :
        (/\ Replied(p)
         /\ \/ ~confSet /\ poll[p].seen
            \/ confSet /\ ProcessedAsOf(poll[p].mid, poll[p].cb)
            \/ confSet /\ confN > 0 /\ poll[p].seen)
            => poll[p].result.status \in {"minted", "minting"}

\* C26: a call that reaches the hints and has fetched at least one transaction
\* the ledger knows (pending, or mined with or without a receipt served), none
\* of them with a failure receipt, replies 'minting' with confirmations 0 and
\* rest_confirmations require_confirmations (0 if unset).
C26_KnownHintMinting ==
    [][\A p \in Pollers :
        (/\ poll[p].pc = "l106" /\ poll'[p].pc = "done"
         /\ \E i \in DOMAIN poll[p].fetched :
                txState[poll[p].fetched[i]] \in {"pending", "ok", "failed"}
         /\ \A i \in DOMAIN poll[p].fetched :
                txState[poll[p].fetched[i]] = "failed"
                    => poll[p].fetched[i] \in poll'[p].nr)
            => /\ poll'[p].result.status = "minting"
               /\ poll'[p].result.fields
               /\ poll'[p].result.confirmations = 0
               /\ poll'[p].result.rest_confirmations = IF confSet THEN confN ELSE 0]_vars

\* a call replied 'minting' on two hints, a dropped one before a pending one
C26_Witness ==
    \E p \in Pollers :
        /\ Replied(p) /\ poll[p].via = "hints"
        /\ poll[p].result = build_status_conf("minting", 0, ConfGet)
        /\ Len(poll[p].fetched) = 2
        /\ txState[poll[p].fetched[1]] = "dropped"
        /\ txState[poll[p].fetched[2]] = "pending"

\* C27: a call that reaches the hints and has fetched only transactions the
\* ledger does not know replies as with no hint: 'node_syncing' if eth.syncing
\* answered true, 'not_minted' otherwise.
C27_UnknownHintsIgnored ==
    [][\A p \in Pollers :
        (/\ poll[p].pc = "l106" /\ poll'[p].pc = "done"
         /\ \A i \in DOMAIN poll[p].fetched :
                txState[poll[p].fetched[i]] \in {"none", "dropped"})
            => poll'[p].result = IF poll'[p].sync THEN build_status("node_syncing")
                                                 ELSE build_status("not_minted")]_vars

\* a call replied 'not_minted' on two hints, both dropped
C27_Witness ==
    \E p \in Pollers :
        /\ Replied(p) /\ poll[p].via = "hints"
        /\ poll[p].result = build_status("not_minted")
        /\ Len(poll[p].fetched) = 2
        /\ \A i \in DOMAIN poll[p].fetched : txState[poll[p].fetched[i]] = "dropped"

\* C28: when a call replies 'minted', the hint list of its mint id is empty if
\* the delete reached the cache; if it did not, the reply is 'minted' all the
\* same and the list is as it was.
C28_MintedCleansHints ==
    [][\A p \in Pollers :
        (poll[p].pc = "l282" /\ poll'[p].pc = "done")
            => /\ poll'[p].result = build_status("minted")
               /\ hints'[poll[p].mid] = IF poll'[p].reached THEN <<>>
                                                           ELSE hints[poll[p].mid]]_vars

\* a call has replied 'minted' and emptied a hint list that held a hash
C28_Witness ==
    \E p \in Pollers :
        /\ Replied(p) /\ poll[p].result.status = "minted" /\ poll[p].reached
        /\ hints[poll[p].mid] = <<>>
        /\ \E t \in TxIds : txMint[t] = poll[p].mid /\ mintDone[t] = "done"

\* C29 (require_confirmations > 0): a call that began after the mint of its id
\* was mined replies 'minting' or 'minted', and replies 'minted' if the height
\* it read less require_confirmations had reached the block of the mint.
C29_ConfirmationProgress ==
    \A p \in Pollers :
        (Replied(p) /\ confSet /\ confN > 0 /\ poll[p].seen)
            => /\ poll[p].result.status \in {"minting", "minted"}
               /\ processedAt[poll[p].mid] <= poll[p].cb
                    => poll[p].result.status = "minted"

\* C30: every 'minting' reply of Step 2 has 0 <= confirmations <
\* require_confirmations and 1 <= rest_confirmations <= require_confirmations.
C30_Step2Range ==
    \A p \in Pollers :
        (Replied(p) /\ poll[p].via = "step2")
            => /\ poll[p].result.status = "minting"
               /\ 0 <= poll[p].result.confirmations
               /\ poll[p].result.confirmations < ConfGet
               /\ 1 <= poll[p].result.rest_confirmations
               /\ poll[p].result.rest_confirmations <= ConfGet

\* a call has left get_minting_status, with a reply or with an exception
Ended(p) == poll[p].pc \in {"done", "raised"}

\* C31: a get_minting_status call that overlaps no other call leaves
\* eth.defaultBlock as it found it, when it replies and when the pinned read
\* raises: between calls the default block is the one the service started
\* with, and the only writes a call makes are the pin of l.275 and the
\* restore of the value it saved at l.274.
C31_RestoresDefault ==
    /\ [](\A p \in threads :
            (poll[p].pc = "idle" \/ Ended(p)) => defaultBlock = Latest)
    /\ [][\A p \in threads :
            (poll'[p] # poll[p] /\ defaultBlock' # defaultBlock)
                => \/ poll[p].pc = "l275" /\ defaultBlock' = poll[p].cb
                   \/ /\ poll[p].pc \in {"l282", "l286"}
                      /\ defaultBlock' = poll[p].saved]_vars

\* the pinned read raised while the default block was a historical block, and
\* the call has ended with the default block back at 'latest'
C31_Witness ==
    \E p \in threads :
        /\ poll[p].pc = "raised"
        /\ confSet /\ poll[p].cb # Latest
        /\ defaultBlock = Latest

\* C32: once every get_minting_status call of the service has finished
\* (require_confirmations > 0), eth.defaultBlock is 'latest' again, whatever
\* calls overlapped before.
C32_QuiescentDefault ==
    (ConfGet > 0 /\ \A p \in threads : poll[p].pc = "idle" \/ Ended(p))
        => defaultBlock = Latest

\* floor(0.9 * g): the largest integer k with 10 k <= 9 g
Floor90(g) == CHOOSE k \in 0..g : 10 * k <= 9 * g /\ 9 * g < 10 * (k + 1)

\* C33: the gas of a mint_tokens transaction is floor(0.9 * gasLimit of the
\* latest block) without a configured gas_limit and the smaller of the
\* configured gas_limit and that value with one; it exceeds neither 90% of the
\* block's gas limit nor the configured cap.
C33_GasLimit ==
    mintGas.sent =>
        /\ ~mintGas.conf.set => mintGas.gas = Floor90(mintGas.block)
        /\ mintGas.conf.set =>
              /\ mintGas.gas \in {mintGas.conf.v, Floor90(mintGas.block)}
              /\ mintGas.gas <= Floor90(mintGas.block)
              /\ mintGas.gas <= mintGas.conf.v
        /\ 10 * mintGas.gas <= 9 * mintGas.block

\* a transaction was sent under a configured cap above 90% of the block's gas
\* limit, where 90% is not a whole number: the floor is what bounds the gas
C33_Witness ==
    /\ mintGas.sent
    /\ mintGas.conf.set
    /\ mintGas.conf.v > Floor90(mintGas.block)
    /\ 10 * mintGas.gas < 9 * mintGas.block

\* the operation process c ran has returned or raised; the process is still
\* there
OperationOver(c) == proc[c].pc \in {"failed", "close", "done"}

\* C34: when init_account, deploy_contract or recover_ether has returned or
\* raised (UsageError, ledger error, or any other exception), the state lock it
\* took is released: the process holds no lock of its own but the one of the
\* wsgi-mode MinterService it may have built, and with no other holder around
\* the next administrative operation is granted the lock.
C34_LockReleased ==
    \A c \in Procs :
        (OperationOver(c) /\ proc[c].cmd # "install")
            => /\ lockEx # c
               /\ c \notin lockSh
               /\ (~svc.up /\ \A d \in Procs \ {c} : proc[d].pc = "idle")
                    => flock_grants(FALSE)

\* an operation ended by a ledger error under the lock, and the next
\* operation has been granted the lock while that process is still there
C34_Witness ==
    \E c, d \in Procs :
        /\ proc[c].pc = "failed" /\ proc[c].err = "ledger error"
        /\ proc[c].st.account
        /\ proc[d].pc = "body" /\ lockEx = d

\* C35: get_or_init_account, called while nobody holds the state lock, returns
\* the stored account if there is one and otherwise makes an account and
\* stores it; either way it ends without an error, state.yaml holds an
\* account, and the caller holds no lock afterwards.
C35_GetOrInitAccount ==
    [][\A c \in Procs :
        (proc[c].pc = "acct" /\ proc'[c] # proc[c] /\ flock_grants(FALSE))
            => /\ proc'[c].pc = "ctor" /\ proc'[c].err = ""
               /\ stateFile'.account
               /\ IF stateFile.account
                  THEN accounts' = accounts /\ stateFile' = stateFile
                  ELSE accounts' = accounts + 1
               /\ lockEx' # c /\ c \notin lockSh']_vars

\* process c is in the loop of _get_receipt_blocking
Waiting(c) == proc[c].pc = "wait"

\* process d asks for the state lock in this step
AsksForLock(d) ==
    /\ proc[d].pc \in {"lock", "acct", "ctor"}
    /\ proc'[d] # proc[d]
    /\ proc'[d].err # "ledger error"

\* C36, the turn that finds the receipt: it ends the wait.
C36_ReturnsWhenFound ==
    [][\A c \in Procs :
        (Waiting(c) /\ receipt_found(c) /\ proc'[c] # proc[c])
            => proc'[c].pc = "unlock"]_vars

\* C36, no timeout: without a receipt the wait goes on, under the lock, until
\* the transaction is mined (or a ledger call raises).
C36_NoTimeout ==
    /\ [](\A c \in Procs : Waiting(c) => lockEx = c \/ c \in lockSh)
    /\ [][\A c \in Procs :
            (Waiting(c) /\ ~receipt_found(c) /\ proc'[c] # proc[c])
                => \/ Waiting(c)' /\ receipt_found(c)'
                   \/ proc'[c].err = "ledger error"]_vars

\* C36, the others: while an operation waits, every other administrative
\* invocation that asks for the state lock ends at once with the 'another
\* instance is running' error.
C36_OthersFailFast ==
    [][\A c \in Procs : \A d \in Procs \ {c} :
        (Waiting(c) /\ AsksForLock(d))
            => proc'[d].pc = "failed" /\ proc'[d].err = BusyError]_vars

\* C36: the wait-for-receipt loop of deploy_contract and recover_ether returns
\* in the turn that finds the receipt; it has no timeout, so without a receipt
\* the operation stays in it and keeps the state lock; and while it waits every
\* other administrative invocation fails at once on the lock.
C36_ReceiptWait ==
    /\ C36_ReturnsWhenFound
    /\ C36_NoTimeout
    /\ C36_OthersFailFast

====
